---- MODULE Spec2Model ----
(***************************************************************************)
(* Bouncing ball in a spinning hexagon (BouncingBall.py).                  *)
(*                                                                         *)
(* The program computes with floats (pygame.math.Vector2, math.cos/sin).   *)
(* Here every float is a fixed-point integer:                              *)
(*   positions and lengths   in units of 1/PS pixel,                       *)
(*   velocities              in units of 1/VS pixel per frame,             *)
(*   unit vectors and ratios in units of 1/NS,                             *)
(*   angles, angular speeds  in units of 1/AS radian.                      *)
(* Every product is divided back with rounding to nearest (MulDiv), and    *)
(* is split so that no intermediate value leaves the 32-bit range.         *)
(***************************************************************************)
EXTENDS Integers, Sequences, FiniteSets, TLC

VARIABLES
    ball_pos,                  \* ball_pos (global), [x, y] in 1/PS pixel
    ball_velocity,             \* ball_velocity (global), [x, y] in 1/VS pixel per frame
    hexagon_rotation,          \* hexagon_rotation (global), 1/AS radian
    hexagon_angular_velocity,  \* hexagon_angular_velocity (global), 1/AS radian per frame
    collision_count,           \* collision_count (local of main)
    game_paused,               \* game_paused (local of main)
    keys,                      \* what pygame.key.get_pressed() reports: the set of held keys
    collision_happened,        \* collision_happened (local of main): handle_collision's flag
    containment_collision,     \* containment_collision (local of main): ensure_ball_inside's flag
    hash_seed,                 \* the process's string-hash seed (fixed when the process starts)
    steps,                     \* history: unpaused physics steps since start or last reset
    snapped,                   \* history: the last ensure_ball_inside call took the reposition branch
    pc,                        \* "main" in the frame loop; in a harness, the function applied
    arg_pos,                   \* unit harness: the position the function was called with
    arg_velocity,              \* unit harness: the velocity the function was called with
    pip_result                 \* unit harness: what point_in_polygon returned

vars == << ball_pos, ball_velocity, hexagon_rotation, hexagon_angular_velocity,
           collision_count, game_paused, keys, collision_happened,
           containment_collision, hash_seed, steps, snapped, pc,
           arg_pos, arg_velocity, pip_result >>

(***************************************************************************)
(* Fixed-point representation of the program's floats.                     *)
(***************************************************************************)
PS == 100
VS == 10000
NS == 10000
AS == 100000
TS == 20000

Abs(a) == IF a < 0 THEN -a ELSE a
Max(a, b) == IF a > b THEN a ELSE b
Min(a, b) == IF a < b THEN a ELSE b

\* a / d rounded to the nearest integer, halves away from zero (d > 0)
RoundDiv(a, d) == IF a >= 0 THEN (a + d \div 2) \div d ELSE -((-a + d \div 2) \div d)

\* a * b / d rounded to nearest, without forming a * b
MulDiv(a, b, d) ==
    LET A == Abs(a)
        B == Abs(b)
        q == A \div d
        r == A % d
        m == q * B + RoundDiv(r * B, d)
    IN IF (a < 0) = (b < 0) THEN m ELSE -m

RECURSIVE SqrtIter(_, _)
SqrtIter(n, x) ==
    LET y == (x + n \div x) \div 2
    IN IF y >= x THEN x ELSE SqrtIter(n, y)

\* square root rounded to the nearest integer
Sqrt(n) ==
    IF n <= 0 THEN 0
    ELSE LET s == SqrtIter(n, 46340)
         IN IF n - s * s > s THEN s + 1 ELSE s

(***************************************************************************)
(* pygame.math.Vector2                                                     *)
(***************************************************************************)
Vec(x, y) == [x |-> x, y |-> y]
VAdd(a, b) == Vec(a.x + b.x, a.y + b.y)
VSub(a, b) == Vec(a.x - b.x, a.y - b.y)
VNeg(a) == Vec(-a.x, -a.y)
\* Vector2.dot and Vector2.cross of two vectors of one scale (exact)
Dot(a, b) == a.x * b.x + a.y * b.y
Cross(a, b) == a.x * b.y - a.y * b.x
\* Vector2.length_squared, Vector2.length
LengthSquared(a) == a.x * a.x + a.y * a.y
\* a long vector is measured in coarser units, so that the squares fit
Length(a) ==
    LET m == Max(Abs(a.x), Abs(a.y))
        j == m \div 30000 + 1
    IN IF j = 1
       THEN Sqrt(LengthSquared(a))
       ELSE j * Sqrt(LengthSquared(Vec(RoundDiv(a.x, j), RoundDiv(a.y, j))))
\* v * s for a ratio s in 1/NS, and the dot product with a unit vector in 1/NS
ScaleN(v, s) == Vec(MulDiv(v.x, s, NS), MulDiv(v.y, s, NS))
DotN(v, n) == MulDiv(v.x, n.x, NS) + MulDiv(v.y, n.y, NS)
\* v / v.length() as a unit vector in 1/NS; a short vector is scaled up first
\* so that the quotient keeps its precision, a long one down so that the
\* squares fit
Normalize(v) ==
    LET m == Max(Abs(v.x), Abs(v.y))
        k == IF m = 0 THEN 1 ELSE Max(1, 20000 \div m)
        j == m \div 30000 + 1
        ux == RoundDiv(k * v.x, j)
        uy == RoundDiv(k * v.y, j)
        l == Sqrt(ux * ux + uy * uy)
    IN Vec(RoundDiv(ux * NS, l), RoundDiv(uy * NS, l))

(***************************************************************************)
(* math.pi, math.cos, math.sin (angles in 1/AS radian, values in 1/NS)     *)
(***************************************************************************)
PI == 314159
HALF_PI == PI \div 2
TWO_PI == 2 * PI

\* 1 - (x2 / k) * t, one Horner step of the Taylor series; x2 = x^2 in 1/NS
Horner(x2, k, t) == NS - MulDiv(x2, t, k * NS)

\* sine and cosine of r in [0, pi/2]
SinQ(r) ==
    LET x == RoundDiv(r * NS, AS)
        x2 == MulDiv(x, x, NS)
        t == Horner(x2, 6, Horner(x2, 20, Horner(x2, 42, Horner(x2, 72, Horner(x2, 110, NS)))))
    IN MulDiv(x, t, NS)

CosQ(r) ==
    LET x == RoundDiv(r * NS, AS)
        x2 == MulDiv(x, x, NS)
    IN Horner(x2, 2, Horner(x2, 12, Horner(x2, 30, Horner(x2, 56, Horner(x2, 90, NS)))))

Sin(a) ==
    LET m == a % TWO_PI
        q == m \div HALF_PI
        r == m % HALF_PI
    IN CASE q = 1 -> CosQ(r)
         [] q = 2 -> -SinQ(r)
         [] q = 3 -> -CosQ(r)
         [] OTHER -> SinQ(r)

Cos(a) == Sin(a + HALF_PI)

(***************************************************************************)
(* Module constants, lines 6-23                                            *)
(***************************************************************************)
WIDTH == 800
HEIGHT == 600
HEXAGON_CENTER == Vec((WIDTH \div 2) * PS, (HEIGHT \div 2) * PS)
HEXAGON_RADIUS == 200 * PS
INITIAL_ANGULAR_VELOCITY == AS \div 100
ANGULAR_ACCELERATION == (2 * AS) \div 1000
INITIAL_BALL_POS == Vec((WIDTH \div 2) * PS, (HEIGHT \div 2) * PS)
INITIAL_BALL_VELOCITY == Vec(3 * VS, -2 * VS)
ball_radius == 15 * PS
GRAVITY == (2 * VS) \div 10
AIR_FRICTION == (999 * NS) \div 1000
COEFFICIENT_RESTITUTION == (9 * NS) \div 10

\* float('inf')
Infinity == 2147483647
None == "None"

(***************************************************************************)
(* get_hexagon_vertices: six vertices, vertex i (from 1) at angle          *)
(* rotation + pi/6 + (i-1) * pi/3                                          *)
(***************************************************************************)
get_hexagon_vertices(center, radius, rotation) ==
    [ i \in 1..6 |->
        LET angle == rotation + RoundDiv(PI, 6) + RoundDiv((i - 1) * PI, 3)
        IN Vec(center.x + MulDiv(radius, Cos(angle), NS),
               center.y + MulDiv(radius, Sin(angle), NS)) ]

\* (i + 1) % len(vertices), for indices from 1
NextIndex(vs, i) == (i % Len(vs)) + 1

(***************************************************************************)
(* closest_point_on_segment: t = ap.ab / |ab|^2 clamped to [0, 1], kept in *)
(* units of 1/TS                                                           *)
(***************************************************************************)
closest_point_on_segment(point, seg_a, seg_b) ==
    LET ap == VSub(point, seg_a)
        ab == VSub(seg_b, seg_a)
        denom == LengthSquared(ab)
    IN IF denom < (PS * PS) \div 10000
       THEN seg_a
       ELSE LET t == RoundDiv(Dot(ap, ab), Max(1, RoundDiv(denom, TS)))
                tc == Max(0, Min(TS, t))
            IN VAdd(seg_a, Vec(RoundDiv(ab.x * tc, TS), RoundDiv(ab.y * tc, TS)))

(***************************************************************************)
(* wall_velocity_at_point: v = omega x r, perp * angular_velocity          *)
(***************************************************************************)
wall_velocity_at_point(point, center, angular_velocity) ==
    LET r == VSub(point, center)
        perp == Vec(-r.y, r.x)
    IN Vec(MulDiv(perp.x, angular_velocity, (PS * AS) \div VS),
           MulDiv(perp.y, angular_velocity, (PS * AS) \div VS))

\* hash(str(x)) % 100: Python salts string hashes with a seed drawn when the
\* process starts, so the value is a function of x that differs between runs
Hash(x) == (31 * Abs(x) + hash_seed) % 100

\* the normal of lines 76-84 and 134-142: dist_vector / distance, or the
\* perpendicular (-edge.y, edge.x) / |edge| when the distance is below 0.0001
contact_normal(dist_vector, distance, p1, p2) ==
    IF 10000 * distance > PS
    THEN Normalize(dist_vector)
    ELSE LET edge == VSub(p2, p1)
             edge_length == Length(edge)
         IN IF 10000 * edge_length > PS
            THEN Vec(RoundDiv(-edge.y * NS, edge_length), RoundDiv(edge.x * NS, edge_length))
            ELSE Vec(0, NS)

(***************************************************************************)
(* handle_collision, lines 62-98.  collide_edge is the loop body for edge  *)
(* i applied to st = [pos, vel, collided]; the loop runs edges 1..6 in     *)
(* order, each seeing the position and velocity the earlier ones left.     *)
(***************************************************************************)
\* collide_edge with the contact test distance <= radius
collide_edge_touching(st, radius, hexagon_vertices, hexagon_center, angular_velocity, i) ==
    LET p1 == hexagon_vertices[i]
        p2 == hexagon_vertices[NextIndex(hexagon_vertices, i)]
        closest == closest_point_on_segment(st.pos, p1, p2)
        dist_vector == VSub(st.pos, closest)
        distance == Length(dist_vector)
    IN IF distance <= radius
       THEN LET normal == contact_normal(dist_vector, distance, p1, p2)
                penetration_depth == radius - distance
                pos == VAdd(st.pos, ScaleN(normal, penetration_depth))
                wall_vel == wall_velocity_at_point(closest, hexagon_center, angular_velocity)
                rel_vel == VSub(st.vel, wall_vel)
                rn == DotN(rel_vel, normal)
            IN IF rn < 0
               THEN LET energy_factor == NS + MulDiv(5 * Abs(angular_velocity), NS, AS)
                        bounce_coef == MulDiv(energy_factor, COEFFICIENT_RESTITUTION, NS)
                        impulse == MulDiv(rn, NS + bounce_coef, NS)
                        reflected == VSub(rel_vel, Vec(MulDiv(impulse, normal.x, NS),
                                                       MulDiv(impulse, normal.y, NS)))
                        jitter == Vec(RoundDiv(Hash(pos.x) * VS, 2000),
                                      RoundDiv(Hash(pos.y) * VS, 2000))
                    IN [pos |-> pos,
                        vel |-> VAdd(VAdd(reflected, wall_vel), jitter),
                        collided |-> TRUE]
               ELSE [pos |-> pos, vel |-> st.vel, collided |-> TRUE]
       ELSE st

\* collide_edge with the impulse applied at every contact, whatever the
\* direction of the relative velocity
collide_edge_always_bounce(st, radius, hexagon_vertices, hexagon_center, angular_velocity, i) ==
    LET p1 == hexagon_vertices[i]
        p2 == hexagon_vertices[NextIndex(hexagon_vertices, i)]
        closest == closest_point_on_segment(st.pos, p1, p2)
        dist_vector == VSub(st.pos, closest)
        distance == Length(dist_vector)
    IN IF distance < radius
       THEN LET normal == contact_normal(dist_vector, distance, p1, p2)
                penetration_depth == radius - distance
                pos == VAdd(st.pos, ScaleN(normal, penetration_depth))
                wall_vel == wall_velocity_at_point(closest, hexagon_center, angular_velocity)
                rel_vel == VSub(st.vel, wall_vel)
                rn == DotN(rel_vel, normal)
                energy_factor == NS + MulDiv(5 * Abs(angular_velocity), NS, AS)
                bounce_coef == MulDiv(energy_factor, COEFFICIENT_RESTITUTION, NS)
                impulse == MulDiv(rn, NS + bounce_coef, NS)
                reflected == VSub(rel_vel, Vec(MulDiv(impulse, normal.x, NS),
                                               MulDiv(impulse, normal.y, NS)))
                jitter == Vec(RoundDiv(Hash(pos.x) * VS, 2000),
                              RoundDiv(Hash(pos.y) * VS, 2000))
            IN [pos |-> pos,
                vel |-> VAdd(VAdd(reflected, wall_vel), jitter),
                collided |-> TRUE]
       ELSE st

collide_edge(st, radius, hexagon_vertices, hexagon_center, angular_velocity, i) ==
    LET p1 == hexagon_vertices[i]
        p2 == hexagon_vertices[NextIndex(hexagon_vertices, i)]
        closest == closest_point_on_segment(st.pos, p1, p2)
        dist_vector == VSub(st.pos, closest)
        distance == Length(dist_vector)
    IN IF distance < radius
       THEN LET normal == contact_normal(dist_vector, distance, p1, p2)
                penetration_depth == radius - distance
                pos == VAdd(st.pos, ScaleN(normal, penetration_depth))
                wall_vel == wall_velocity_at_point(closest, hexagon_center, angular_velocity)
                rel_vel == VSub(st.vel, wall_vel)
                rn == DotN(rel_vel, normal)
            IN IF rn < 0
               THEN LET energy_factor == NS + MulDiv(5 * Abs(angular_velocity), NS, AS)
                        bounce_coef == MulDiv(energy_factor, COEFFICIENT_RESTITUTION, NS)
                        impulse == MulDiv(rn, NS + bounce_coef, NS)
                        reflected == VSub(rel_vel, Vec(MulDiv(impulse, normal.x, NS),
                                                       MulDiv(impulse, normal.y, NS)))
                        jitter == Vec(RoundDiv(Hash(pos.x) * VS, 2000),
                                      RoundDiv(Hash(pos.y) * VS, 2000))
                    IN [pos |-> pos,
                        vel |-> VAdd(VAdd(reflected, wall_vel), jitter),
                        collided |-> TRUE]
               ELSE [pos |-> pos, vel |-> st.vel, collided |-> TRUE]
       ELSE st

RECURSIVE collide_edges(_, _, _, _, _, _)
collide_edges(st, radius, hexagon_vertices, hexagon_center, angular_velocity, i) ==
    IF i > Len(hexagon_vertices)
    THEN st
    ELSE collide_edges(
             collide_edge(st, radius, hexagon_vertices, hexagon_center, angular_velocity, i),
             radius, hexagon_vertices, hexagon_center, angular_velocity, i + 1)

handle_collision(pos, velocity, radius, hexagon_vertices, hexagon_center, angular_velocity) ==
    collide_edges([pos |-> pos, vel |-> velocity, collided |-> FALSE],
                  radius, hexagon_vertices, hexagon_center, angular_velocity, 1)

(***************************************************************************)
(* point_in_polygon, lines 100-114: winding number                         *)
(***************************************************************************)
\* winding_step counting every crossing edge, without the side test
winding_step_no_side_test(point, vertices, i) ==
    LET p1 == vertices[i]
        p2 == vertices[NextIndex(vertices, i)]
    IN IF p1.y <= point.y
       THEN IF p2.y > point.y THEN 1 ELSE 0
       ELSE IF p2.y <= point.y THEN -1 ELSE 0

winding_step(point, vertices, i) ==
    LET p1 == vertices[i]
        p2 == vertices[NextIndex(vertices, i)]
        c == Cross(VSub(p2, p1), VSub(point, p1))
    IN IF p1.y <= point.y
       THEN IF p2.y > point.y /\ c > 0 THEN 1 ELSE 0
       ELSE IF p2.y <= point.y /\ c < 0 THEN -1 ELSE 0

RECURSIVE winding_number(_, _, _)
winding_number(point, vertices, i) ==
    IF i > Len(vertices)
    THEN 0
    ELSE winding_step(point, vertices, i) + winding_number(point, vertices, i + 1)

point_in_polygon(point, vertices) == winding_number(point, vertices, 1) # 0

(***************************************************************************)
(* ensure_ball_inside, lines 116-150                                       *)
(***************************************************************************)
\* the loop of lines 126-143 from edge i on; best = [min_distance,
\* best_closest, best_normal]
RECURSIVE nearest_edge(_, _, _, _)
nearest_edge(pos, hex_vertices, best, i) ==
    IF i > Len(hex_vertices)
    THEN best
    ELSE LET p1 == hex_vertices[i]
             p2 == hex_vertices[NextIndex(hex_vertices, i)]
             closest == closest_point_on_segment(pos, p1, p2)
             dist_vector == VSub(pos, closest)
             distance == Length(dist_vector)
         IN nearest_edge(pos, hex_vertices,
                IF distance < best.min_distance
                THEN [min_distance |-> distance,
                      best_normal |-> contact_normal(dist_vector, distance, p1, p2),
                      best_closest |-> closest]
                ELSE best,
                i + 1)

\* ensure_ball_inside that never moves the ball
ensure_ball_inside_disabled(pos, velocity, radius, hex_vertices) ==
    [pos |-> pos, vel |-> velocity, corrected |-> FALSE]

\* ensure_ball_inside with the velocity test vel_dot_inward <= 0
ensure_ball_inside_at_rest(pos, velocity, radius, hex_vertices) ==
    IF point_in_polygon(pos, hex_vertices)
    THEN [pos |-> pos, vel |-> velocity, corrected |-> FALSE]
    ELSE LET best == nearest_edge(pos, hex_vertices,
                         [min_distance |-> Infinity, best_normal |-> None,
                          best_closest |-> None], 1)
             inward_normal == VNeg(best.best_normal)
             new_pos == VAdd(best.best_closest, ScaleN(inward_normal, radius))
             vel_dot_inward == DotN(velocity, inward_normal)
         IN IF vel_dot_inward <= 0
            THEN LET k == MulDiv(vel_dot_inward, NS + COEFFICIENT_RESTITUTION, NS)
                 IN [pos |-> new_pos,
                     vel |-> VSub(velocity, Vec(MulDiv(k, inward_normal.x, NS),
                                                MulDiv(k, inward_normal.y, NS))),
                     corrected |-> TRUE]
            ELSE [pos |-> new_pos, vel |-> velocity, corrected |-> FALSE]

ensure_ball_inside(pos, velocity, radius, hex_vertices) ==
    IF point_in_polygon(pos, hex_vertices)
    THEN [pos |-> pos, vel |-> velocity, corrected |-> FALSE]
    ELSE LET best == nearest_edge(pos, hex_vertices,
                         [min_distance |-> Infinity, best_normal |-> None,
                          best_closest |-> None], 1)
             inward_normal == VNeg(best.best_normal)
             new_pos == VAdd(best.best_closest, ScaleN(inward_normal, radius))
             vel_dot_inward == DotN(velocity, inward_normal)
         IN IF vel_dot_inward < 0
            THEN LET k == MulDiv(vel_dot_inward, NS + COEFFICIENT_RESTITUTION, NS)
                 IN [pos |-> new_pos,
                     vel |-> VSub(velocity, Vec(MulDiv(k, inward_normal.x, NS),
                                                MulDiv(k, inward_normal.y, NS))),
                     corrected |-> TRUE]
            ELSE [pos |-> new_pos, vel |-> velocity, corrected |-> FALSE]

(***************************************************************************)
(* main, lines 216-307: the frame loop.                                    *)
(*                                                                         *)
(* A frame handles its queued events and then, unless paused, runs one     *)
(* physics step.  The events of a frame precede its step, so a behaviour   *)
(* of the loop is any interleaving of event handlers and steps.            *)
(***************************************************************************)
Keys == {"left", "right", "down", "space"}

\* bounds of the model
MaxSteps == 90
KeyPeriod == 60
HashSeeds == {0, 57}

\* apply_keys with Left and Right applied after the Down branch as well
apply_keys_down_then_turn(pressed, angular_velocity) ==
    IF "space" \in pressed
    THEN 0
    ELSE LET w0 == IF "down" \in pressed
                   THEN IF 1000 * Abs(MulDiv(angular_velocity, 95, 100)) < AS
                        THEN 0
                        ELSE MulDiv(angular_velocity, 95, 100)
                   ELSE angular_velocity
             w1 == IF "left" \in pressed THEN w0 - ANGULAR_ACCELERATION ELSE w0
         IN IF "right" \in pressed THEN w1 + ANGULAR_ACCELERATION ELSE w1

\* lines 259-270: the angular velocity after the held keys are applied
apply_keys(pressed, angular_velocity) ==
    IF "space" \in pressed
    THEN 0
    ELSE IF "down" \in pressed
         THEN LET w == MulDiv(angular_velocity, 95, 100)
              IN IF 1000 * Abs(w) < AS THEN 0 ELSE w
         ELSE LET w1 == IF "left" \in pressed
                        THEN angular_velocity - ANGULAR_ACCELERATION
                        ELSE angular_velocity
              IN IF "right" \in pressed THEN w1 + ANGULAR_ACCELERATION ELSE w1

\* lines 274-276: gravity, air friction, position
integrate(pos, velocity) ==
    LET v1 == Vec(velocity.x, velocity.y + GRAVITY)
        v2 == Vec(MulDiv(v1.x, AIR_FRICTION, NS), MulDiv(v1.y, AIR_FRICTION, NS))
    IN [pos |-> VAdd(pos, Vec(RoundDiv(v2.x * PS, VS), RoundDiv(v2.y * PS, VS))),
        vel |-> v2]

step_result(collision_result, containment_result) ==
    [pos |-> containment_result.pos,
     vel |-> containment_result.vel,
     collided |-> collision_result.collided,
     corrected |-> containment_result.corrected,
     snapped |-> containment_result.pos # collision_result.pos,
     added |-> (IF collision_result.collided THEN 1 ELSE 0)
               + (IF containment_result.corrected THEN 1 ELSE 0)]

step_contain(collision_result, hex_vertices) ==
    step_result(collision_result,
                ensure_ball_inside(collision_result.pos, collision_result.vel,
                                   ball_radius, hex_vertices))

step_collide(moved, hex_vertices, angular_velocity) ==
    step_contain(handle_collision(moved.pos, moved.vel, ball_radius, hex_vertices,
                                  HEXAGON_CENTER, angular_velocity),
                 hex_vertices)

physics_step(pos, velocity, rotation, angular_velocity) ==
    step_collide(integrate(pos, velocity),
                 get_hexagon_vertices(HEXAGON_CENTER, HEXAGON_RADIUS, rotation),
                 angular_velocity)

Init ==
    /\ ball_pos = INITIAL_BALL_POS
    /\ ball_velocity = INITIAL_BALL_VELOCITY
    /\ hexagon_rotation = 0
    /\ hexagon_angular_velocity = INITIAL_ANGULAR_VELOCITY
    /\ collision_count = 0
    /\ game_paused = FALSE
    /\ keys = {}
    /\ collision_happened = FALSE
    /\ containment_collision = FALSE
    /\ hash_seed \in HashSeeds
    /\ steps = 0
    /\ snapped = FALSE
    /\ pc = "main"
    /\ arg_pos = INITIAL_BALL_POS
    /\ arg_velocity = INITIAL_BALL_VELOCITY
    /\ pip_result = FALSE

\* the user presses or releases keys between two frames
KeyChange ==
    /\ pc = "main"
    /\ steps % KeyPeriod = 0
    /\ \E pressed \in SUBSET Keys : pressed # keys /\ keys' = pressed
    /\ UNCHANGED << ball_pos, ball_velocity, hexagon_rotation, hexagon_angular_velocity,
                    collision_count, game_paused, collision_happened,
                    containment_collision, hash_seed, steps, snapped, pc,
                    arg_pos, arg_velocity, pip_result >>

\* lines 225-226: KEYDOWN K_p
EventPause ==
    /\ pc = "main"
    /\ game_paused' = ~game_paused
    /\ UNCHANGED << ball_pos, ball_velocity, hexagon_rotation, hexagon_angular_velocity,
                    collision_count, keys, collision_happened, containment_collision,
                    hash_seed, steps, snapped, pc, arg_pos, arg_velocity,
                    pip_result >>

\* EventReset that leaves the hexagon's rotation as it is
EventReset_keeps_rotation ==
    /\ pc = "main"
    /\ ball_pos' = Vec((WIDTH \div 2) * PS, (HEIGHT \div 2) * PS)
    /\ ball_velocity' = Vec(3 * VS, -2 * VS)
    /\ hexagon_angular_velocity' = AS \div 100
    /\ collision_count' = 0
    /\ steps' = 0
    /\ UNCHANGED << hexagon_rotation, game_paused, keys, collision_happened,
                    containment_collision, hash_seed, snapped, pc, arg_pos,
                    arg_velocity, pip_result >>

\* lines 229-238: KEYDOWN K_r
EventReset ==
    /\ pc = "main"
    /\ ball_pos' = Vec((WIDTH \div 2) * PS, (HEIGHT \div 2) * PS)
    /\ ball_velocity' = Vec(3 * VS, -2 * VS)
    /\ hexagon_rotation' = 0
    /\ hexagon_angular_velocity' = AS \div 100
    /\ collision_count' = 0
    /\ steps' = 0
    /\ UNCHANGED << game_paused, keys, collision_happened, containment_collision,
                    hash_seed, snapped, pc, arg_pos, arg_velocity, pip_result >>

\* Update that applies the keys and rotates the hexagon although paused
Update_turns_while_paused ==
    /\ pc = "main"
    /\ IF game_paused
       THEN /\ hexagon_angular_velocity' = apply_keys(keys, hexagon_angular_velocity)
            /\ hexagon_rotation' =
                   hexagon_rotation + apply_keys(keys, hexagon_angular_velocity)
            /\ UNCHANGED << ball_pos, ball_velocity, collision_count,
                            collision_happened, containment_collision, steps, snapped >>
       ELSE /\ steps < MaxSteps
            /\ \E w \in {apply_keys(keys, hexagon_angular_velocity)} :
                  \E r \in {physics_step(ball_pos, ball_velocity,
                                         hexagon_rotation + w, w)} :
                      /\ hexagon_angular_velocity' = w
                      /\ hexagon_rotation' = hexagon_rotation + w
                      /\ ball_pos' = r.pos
                      /\ ball_velocity' = r.vel
                      /\ collision_happened' = r.collided
                      /\ containment_collision' = r.corrected
                      /\ collision_count' = collision_count + r.added
                      /\ snapped' = r.snapped
            /\ steps' = steps + 1
    /\ UNCHANGED << game_paused, keys, hash_seed, pc, arg_pos, arg_velocity, pip_result >>

\* lines 256-296: the rest of the frame
Update ==
    /\ pc = "main"
    /\ IF game_paused
       THEN UNCHANGED << ball_pos, ball_velocity, hexagon_rotation,
                         hexagon_angular_velocity, collision_count,
                         collision_happened, containment_collision, steps, snapped >>
       ELSE /\ steps < MaxSteps
            /\ \E w \in {apply_keys(keys, hexagon_angular_velocity)} :
                  \E r \in {physics_step(ball_pos, ball_velocity,
                                         hexagon_rotation + w, w)} :
                      /\ hexagon_angular_velocity' = w
                      /\ hexagon_rotation' = hexagon_rotation + w
                      /\ ball_pos' = r.pos
                      /\ ball_velocity' = r.vel
                      /\ collision_happened' = r.collided
                      /\ containment_collision' = r.corrected
                      /\ collision_count' = collision_count + r.added
                      /\ snapped' = r.snapped
            /\ steps' = steps + 1
    /\ UNCHANGED << game_paused, keys, hash_seed, pc, arg_pos, arg_velocity, pip_result >>

Next == KeyChange \/ EventPause \/ EventReset \/ Update

Spec == Init /\ [][Next]_vars

(***************************************************************************)
(* Unit harness: handle_collision, ensure_ball_inside, point_in_polygon    *)
(* and one physics step applied once to inputs drawn from bounded sets.    *)
(* The inputs are kept in arg_pos and arg_velocity, the results replace    *)
(* ball_pos, ball_velocity and the flags.                                  *)
(***************************************************************************)
HexVertices == get_hexagon_vertices(HEXAGON_CENTER, HEXAGON_RADIUS, hexagon_rotation)

UnitRotations == {0, 26180, 52360}
UnitAngularVelocities == {0, 5000}
UnitVelocities == {Vec(0, 0), Vec(3 * VS, -2 * VS), Vec(-6 * VS, 4 * VS), Vec(0, 9 * VS)}
\* eighths along an edge, and signed distances from it towards the centre
UnitFractions == {1, 4}
UnitOffsets == {-2000, -500, 0, 500, 1400, 1500, 2500}
UnitCornerOffsets == {-500, 1000}
PipRotations == {k * 7000 : k \in -10..100} \cup UnitRotations \cup {-52360}

\* the points at distance 2R from the centre along the x and the y axis
AxisPoints ==
    {VAdd(HEXAGON_CENTER, Vec(sx * 2 * HEXAGON_RADIUS, 0)) : sx \in {-1, 1}}
    \cup {VAdd(HEXAGON_CENTER, Vec(0, sy * 2 * HEXAGON_RADIUS)) : sy \in {-1, 1}}

\* the point f/8 along edge i, moved d towards the centre
EdgePoint(vs, i, f, d) ==
    LET p1 == vs[i]
        edge == VSub(vs[NextIndex(vs, i)], p1)
        towards == Normalize(Vec(-edge.y, edge.x))
    IN VAdd(VAdd(p1, Vec(RoundDiv(edge.x * f, 8), RoundDiv(edge.y * f, 8))),
            ScaleN(towards, d))

\* vertex i moved d towards the centre
CornerPoint(vs, i, d) == VAdd(vs[i], ScaleN(Normalize(VSub(HEXAGON_CENTER, vs[i])), d))

UnitPoints(vs) ==
    {HEXAGON_CENTER} \cup AxisPoints
    \cup {EdgePoint(vs, i, f, d) : i \in 1..6, f \in UnitFractions, d \in UnitOffsets}
    \cup {CornerPoint(vs, i, d) : i \in 1..6, d \in UnitCornerOffsets}

UnitInit ==
    /\ pc = "call"
    /\ hash_seed \in HashSeeds
    /\ \/ /\ hexagon_rotation \in UnitRotations
          /\ hexagon_angular_velocity \in UnitAngularVelocities
          /\ ball_pos \in UnitPoints(HexVertices)
          /\ ball_velocity \in UnitVelocities
       \/ /\ hexagon_rotation \in PipRotations
          /\ hexagon_angular_velocity = 0
          /\ ball_pos \in {HEXAGON_CENTER} \cup AxisPoints
          /\ ball_velocity = Vec(0, 0)
    /\ arg_pos = ball_pos
    /\ arg_velocity = ball_velocity
    /\ collision_count = 0
    /\ game_paused = FALSE
    /\ keys = {}
    /\ collision_happened = FALSE
    /\ containment_collision = FALSE
    /\ steps = 0
    /\ snapped = FALSE
    /\ pip_result = FALSE

CallHandleCollision ==
    /\ pc = "call"
    /\ \E r \in {handle_collision(ball_pos, ball_velocity, ball_radius, HexVertices,
                                 HEXAGON_CENTER, hexagon_angular_velocity)} :
          /\ ball_pos' = r.pos
          /\ ball_velocity' = r.vel
          /\ collision_happened' = r.collided
    /\ pc' = "handle_collision"
    /\ UNCHANGED << hexagon_rotation, hexagon_angular_velocity, collision_count,
                    game_paused, keys, containment_collision, hash_seed, steps,
                    snapped, arg_pos, arg_velocity, pip_result >>

CallEnsureBallInside ==
    /\ pc = "call"
    /\ \E r \in {ensure_ball_inside(ball_pos, ball_velocity, ball_radius, HexVertices)} :
          /\ ball_pos' = r.pos
          /\ ball_velocity' = r.vel
          /\ containment_collision' = r.corrected
          /\ snapped' = (r.pos # ball_pos)
    /\ pc' = "ensure_ball_inside"
    /\ UNCHANGED << hexagon_rotation, hexagon_angular_velocity, collision_count,
                    game_paused, keys, collision_happened, hash_seed, steps,
                    arg_pos, arg_velocity, pip_result >>

CallPointInPolygon ==
    /\ pc = "call"
    /\ pip_result' = point_in_polygon(ball_pos, HexVertices)
    /\ pc' = "point_in_polygon"
    /\ UNCHANGED << ball_pos, ball_velocity, hexagon_rotation, hexagon_angular_velocity,
                    collision_count, game_paused, keys, collision_happened,
                    containment_collision, hash_seed, steps, snapped, arg_pos,
                    arg_velocity >>

CallPhysicsStep ==
    /\ pc = "call"
    /\ \E r \in {physics_step(ball_pos, ball_velocity, hexagon_rotation,
                             hexagon_angular_velocity)} :
          /\ ball_pos' = r.pos
          /\ ball_velocity' = r.vel
          /\ collision_happened' = r.collided
          /\ containment_collision' = r.corrected
          /\ collision_count' = collision_count + r.added
          /\ snapped' = r.snapped
    /\ pc' = "physics_step"
    /\ UNCHANGED << hexagon_rotation, hexagon_angular_velocity, game_paused, keys,
                    hash_seed, steps, arg_pos, arg_velocity, pip_result >>

UnitNext ==
    CallHandleCollision \/ CallEnsureBallInside \/ CallPointInPolygon \/ CallPhysicsStep

UnitSpec == UnitInit /\ [][UnitNext]_vars

(***************************************************************************)
(* Key handling alone, lines 257-270, run frame after frame with the same  *)
(* keys held, from any angular velocity of SpinVelocities.  The loop runs a *)
(* frame for as long as the program runs, hence the weak fairness.         *)
(***************************************************************************)
\* largest |angular velocity|, in 1/AS rad per frame, at which a frame is taken
MaxSpin == 40000

SpinVelocities ==
    ({k * 1000 : k \in -40..40} \ {0}) \cup {-105, -100, -99, 99, 100, 105}

SpinInit ==
    /\ pc = "spin"
    /\ hexagon_angular_velocity \in SpinVelocities
    /\ keys \in SUBSET Keys
    /\ hash_seed \in HashSeeds
    /\ ball_pos = INITIAL_BALL_POS
    /\ ball_velocity = INITIAL_BALL_VELOCITY
    /\ hexagon_rotation = 0
    /\ arg_pos = INITIAL_BALL_POS
    /\ arg_velocity = INITIAL_BALL_VELOCITY
    /\ collision_count = 0
    /\ game_paused = FALSE
    /\ collision_happened = FALSE
    /\ containment_collision = FALSE
    /\ steps = 0
    /\ snapped = FALSE
    /\ pip_result = FALSE

KeyHandling ==
    /\ pc = "spin"
    /\ Abs(hexagon_angular_velocity) <= MaxSpin
    /\ hexagon_angular_velocity' = apply_keys(keys, hexagon_angular_velocity)
    /\ UNCHANGED << ball_pos, ball_velocity, hexagon_rotation, collision_count,
                    game_paused, keys, collision_happened, containment_collision,
                    hash_seed, steps, snapped, pc, arg_pos, arg_velocity, pip_result >>

SpinNext == KeyHandling

SpinSpec == SpinInit /\ [][SpinNext]_vars /\ WF_vars(KeyHandling)

(***************************************************************************)
(* Geometry used to state the properties                                   *)
(***************************************************************************)
\* slack, in 1/PS pixel, granted to the rounding of the fixed-point arithmetic
Tolerance == 5

\* the vertices run counter-clockwise, so the inside is on the left of every edge
InsideOrOnBoundary(point, vs) ==
    \A i \in 1..6 : Cross(VSub(vs[NextIndex(vs, i)], vs[i]), VSub(point, vs[i])) >= 0

StrictlyInside(point, vs) ==
    \A i \in 1..6 : Cross(VSub(vs[NextIndex(vs, i)], vs[i]), VSub(point, vs[i])) > 0

ClosestOnEdge(point, vs, i) == closest_point_on_segment(point, vs[i], vs[NextIndex(vs, i)])

EdgeDistance(point, vs, i) == Length(VSub(point, ClosestOnEdge(point, vs, i)))

\* at distance >= ball_radius from the closest point of each edge
AllFar(point, vs) == \A i \in 1..6 : EdgeDistance(point, vs, i) >= ball_radius

ContactEdges(point, vs) == {i \in 1..6 : EdgeDistance(point, vs, i) < ball_radius}

\* the first edge at the least distance
NearestEdge(point, vs) ==
    CHOOSE i \in 1..6 :
        \A j \in 1..6 : /\ EdgeDistance(point, vs, i) <= EdgeDistance(point, vs, j)
                        /\ (EdgeDistance(point, vs, j) = EdgeDistance(point, vs, i) => i <= j)

\* the normal the code takes at edge i for a ball at point
NormalAt(point, vs, i) ==
    contact_normal(VSub(point, ClosestOnEdge(point, vs, i)), EdgeDistance(point, vs, i),
                   vs[i], vs[NextIndex(vs, i)])

InitialPhysics ==
    << INITIAL_BALL_POS, INITIAL_BALL_VELOCITY, 0, INITIAL_ANGULAR_VELOCITY, 0 >>

Physics ==
    << ball_pos, ball_velocity, hexagon_rotation, hexagon_angular_velocity, collision_count >>

(***************************************************************************)
(* Properties of the frame loop (Spec)                                     *)
(***************************************************************************)

\* C1: after every unpaused step (and in every reachable state of the loop)
\* the ball's centre is inside the hexagon of that step or on its boundary.
C1_BallInHexagon == pc = "main" => InsideOrOnBoundary(ball_pos, HexVertices)

\* a step in which ensure_ball_inside had to put the ball back
C1_Witness ==
    pc = "main" /\ steps > 0 /\ snapped /\ InsideOrOnBoundary(ball_pos, HexVertices)

\* C2: after every unpaused step the centre is at least ball_radius - epsilon
\* from the closest point of each of the six edges.
C2_AllEdgesClear ==
    (pc = "main" /\ steps > 0) =>
        \A i \in 1..6 : EdgeDistance(ball_pos, HexVertices, i) >= ball_radius - Tolerance

\* C6: handling a reset, paused or not, puts position, velocity, rotation,
\* angular velocity and collision_count back to the program's initial values:
\* as long as no physics step has run since, the physics state is the initial one.
C6_ResetRestoresInitialState == (pc = "main" /\ steps = 0) => Physics = InitialPhysics

\* a reset handled while paused, after a frame in which the ball hit a wall
C6_Witness ==
    pc = "main" /\ steps = 0 /\ game_paused /\ collision_happened /\ Physics = InitialPhysics

\* C9: while paused nothing changes the physics state except a reset, whatever
\* keys are held; un-pausing leaves it as it was frozen.
C9_PausedFrozen ==
    [][(pc = "main" /\ game_paused) =>
           \/ Physics' = Physics
           \/ steps' = 0 /\ Physics' = InitialPhysics]_vars

\* paused in mid-flight with keys held
C9_Witness == pc = "main" /\ game_paused /\ steps > 0 /\ keys # {} /\ ball_pos # INITIAL_BALL_POS

(***************************************************************************)
(* Properties of the functions (UnitSpec)                                  *)
(***************************************************************************)

\* C3: called with a centre classified as not inside, ensure_ball_inside
\* returns a centre inside the hexagon, at distance ball_radius from the
\* boundary point nearest to the centre it was given.
C3_SnapInsideAtRadius ==
    (pc = "ensure_ball_inside" /\ ~point_in_polygon(arg_pos, HexVertices)) =>
        /\ StrictlyInside(ball_pos, HexVertices)
        /\ Abs(Length(VSub(ball_pos,
                           ClosestOnEdge(arg_pos, HexVertices,
                                         NearestEdge(arg_pos, HexVertices))))
               - ball_radius) <= Tolerance

IntegratedVelocity(v) ==
    Vec(MulDiv(v.x, AIR_FRICTION, NS), MulDiv(v.y + GRAVITY, AIR_FRICTION, NS))
IntegratedPosition(p, v) ==
    VAdd(p, Vec(RoundDiv(IntegratedVelocity(v).x * PS, VS),
                RoundDiv(IntegratedVelocity(v).y * PS, VS)))

\* C5: with the centre at distance >= ball_radius from every edge
\* handle_collision changes nothing and reports no contact; if the centre is
\* also inside, ensure_ball_inside changes nothing and reports no correction;
\* a whole step then changes the ball by the integration only and leaves
\* collision_count as it was.
C5_NoContactNoChange ==
    /\ (pc = "handle_collision" /\ AllFar(arg_pos, HexVertices)) =>
           /\ ~collision_happened
           /\ ball_pos = arg_pos
           /\ ball_velocity = arg_velocity
    /\ (pc = "ensure_ball_inside" /\ point_in_polygon(arg_pos, HexVertices)) =>
           /\ ~containment_collision
           /\ ball_pos = arg_pos
           /\ ball_velocity = arg_velocity
    /\ (/\ pc = "physics_step"
        /\ AllFar(IntegratedPosition(arg_pos, arg_velocity), HexVertices)
        /\ point_in_polygon(IntegratedPosition(arg_pos, arg_velocity), HexVertices)) =>
           /\ ball_pos = IntegratedPosition(arg_pos, arg_velocity)
           /\ ball_velocity = IntegratedVelocity(arg_velocity)
           /\ collision_count = 0
           /\ ~collision_happened
           /\ ~containment_collision

\* a step of a moving ball well inside the hexagon
C5_Witness ==
    /\ pc = "physics_step"
    /\ arg_velocity # Vec(0, 0)
    /\ AllFar(IntegratedPosition(arg_pos, arg_velocity), HexVertices)
    /\ point_in_polygon(IntegratedPosition(arg_pos, arg_velocity), HexVertices)
    /\ ball_pos = IntegratedPosition(arg_pos, arg_velocity)
    /\ collision_count = 0

\* C7: for every rotation the hexagon's centre is classified inside and the
\* points at distance 2R along the axes outside; the result is a boolean,
\* true for every point strictly inside and false for every point outside.
C7_WindingClassifier ==
    pc = "point_in_polygon" =>
        /\ pip_result \in BOOLEAN
        /\ arg_pos = HEXAGON_CENTER => pip_result
        /\ arg_pos \in AxisPoints => ~pip_result
        /\ StrictlyInside(arg_pos, HexVertices) => pip_result
        /\ pip_result => InsideOrOnBoundary(arg_pos, HexVertices)

\* the centre of a rotated hexagon, classified inside
C7_Witness ==
    /\ pc = "point_in_polygon"
    /\ hexagon_rotation \notin UnitRotations
    /\ arg_pos = HEXAGON_CENTER
    /\ pip_result

\* the jitter of lines 94-97 for a ball pushed to pos
JitterAt(pos) == Vec(RoundDiv(Hash(pos.x) * VS, 2000), RoundDiv(Hash(pos.y) * VS, 2000))

\* the ball pushed out of edge i, and its velocity relative to the wall there
PushedOut(point, vs, i) ==
    VAdd(point, ScaleN(NormalAt(point, vs, i), ball_radius - EdgeDistance(point, vs, i)))
WallVelocityAt(point, vs, i) ==
    wall_velocity_at_point(ClosestOnEdge(point, vs, i), HEXAGON_CENTER,
                           hexagon_angular_velocity)
ApproachSpeed(point, velocity, vs, i) ==
    DotN(VSub(velocity, WallVelocityAt(point, vs, i)), NormalAt(point, vs, i))

\* exactly edge i is in contact, and the push leaves every other edge clear
SingleContact(point, vs, i) ==
    /\ ContactEdges(point, vs) = {i}
    /\ ContactEdges(PushedOut(point, vs, i), vs) = {}

\* C8: a contact is recorded exactly when some edge is closer than
\* ball_radius; the ball is pushed out along the normal by ball_radius -
\* distance; the velocity is reflected (relative to the wall, plus jitter)
\* only if the relative velocity points into the wall, and is otherwise
\* returned exactly as given although the contact is recorded.
C8_ContactAndImpulse ==
    pc = "handle_collision" =>
        LET contacts == ContactEdges(arg_pos, HexVertices)
            i == CHOOSE e \in contacts : TRUE
            approach == ApproachSpeed(arg_pos, arg_velocity, HexVertices, i)
        IN /\ collision_happened = (contacts # {})
           /\ ~collision_happened => ball_velocity = arg_velocity /\ ball_pos = arg_pos
           /\ (Cardinality(contacts) = 1 /\ SingleContact(arg_pos, HexVertices, i)) =>
                  /\ ball_pos = PushedOut(arg_pos, HexVertices, i)
                  /\ approach >= 0 => ball_velocity = arg_velocity
                  /\ approach < 0 =>
                         /\ ball_velocity # arg_velocity
                         /\ DotN(VSub(VSub(ball_velocity, JitterAt(ball_pos)),
                                      WallVelocityAt(arg_pos, HexVertices, i)),
                                 NormalAt(arg_pos, HexVertices, i)) >= 0

\* a contact with a wall the ball is not moving into: pushed out, velocity kept
C8_Witness ==
    /\ pc = "handle_collision"
    /\ collision_happened
    /\ arg_velocity # Vec(0, 0)
    /\ ball_pos # arg_pos
    /\ ball_velocity = arg_velocity

(***************************************************************************)
(* Properties of the key handling (SpinSpec)                               *)
(***************************************************************************)

\* C10: a frame with Space held sets the angular velocity to 0, whatever else
\* is held; a frame with Down and without Space multiplies it by 0.95, or sets
\* it to 0 once that is below 0.001, never changes its sign, strictly shrinks
\* it while it is not 0 and keeps it 0, whether or not Left or Right is held;
\* and with Down held in every frame it becomes 0 after finitely many frames.
C10_DownDecaysSpaceStops ==
    /\ [][pc = "spin" =>
            /\ "space" \in keys => hexagon_angular_velocity' = 0
            /\ ("down" \in keys /\ "space" \notin keys) =>
                   /\ hexagon_angular_velocity' =
                          IF 1000 * Abs(MulDiv(hexagon_angular_velocity, 95, 100)) < AS
                          THEN 0
                          ELSE MulDiv(hexagon_angular_velocity, 95, 100)
                   /\ hexagon_angular_velocity' # 0 =>
                          (hexagon_angular_velocity' > 0) = (hexagon_angular_velocity > 0)
                   /\ hexagon_angular_velocity # 0 =>
                          Abs(hexagon_angular_velocity') < Abs(hexagon_angular_velocity)
                   /\ hexagon_angular_velocity = 0 => hexagon_angular_velocity' = 0]_vars
    /\ (pc = "spin" /\ "down" \in keys /\ "space" \notin keys)
           ~> (hexagon_angular_velocity = 0)

\* Down held together with Right until the spin has died out (no behaviour
\* starts at 0)
C10_Witness ==
    /\ pc = "spin"
    /\ keys = {"down", "right"}
    /\ hexagon_angular_velocity = 0

====
